---- MODULE Spec2Model ----
(***************************************************************************)
(* Model of the Treelite model serializer (src/src/serializer.cc).         *)
(*                                                                         *)
(* An artifact is a sequence of units, one per field written by a          *)
(* transport mix-in.  The caller either holds a Model built by a frontend  *)
(* and encodes it (GetPyBuffer, SerializeToStream), or holds an artifact   *)
(* received from elsewhere and decodes it (CreateFromPyBuffer,             *)
(* DeserializeFromStream).  Artifacts produced by the encoders can be fed  *)
(* back to the decoders.                                                   *)
(***************************************************************************)
EXTENDS Integers, Sequences, FiniteSets, TLC

VARIABLES
  cur,      \* TREELITE_VER_MAJOR / MINOR / PATCH of the running library
  model,    \* the Model object the caller holds (NoModel when it holds none)
  encoded,  \* log of the encode calls made so far, oldest first
  input,    \* artifact received from elsewhere (<<>> when there is none)
  pyRes,    \* outcome of the last Model::CreateFromPyBuffer
  stRes,    \* outcome of the last Model::DeserializeFromStream
  direct,   \* log of the calls made on a Serializer directly, oldest first
  task,     \* outcome of the last task-type conversion
  ops,      \* the operations running concurrently, one record each
  os,       \* the transport instances the concurrent operations are bound to
  ast       \* the AST an ASTBuilder holds (NoAST when there is none)

\* the state the four entry points of Model do not touch
others == <<direct, task, ops, os, ast>>

vars == <<cur, model, encoded, input, pyRes, stRes, direct, task, ops, os, ast>>

(***************************************************************************)
(* Bounds                                                                  *)
(***************************************************************************)
MaxMajor   == 4    \* current major in LegacyMajor..MaxMajor
MaxMinor   == 10   \* minors in LegacyMinor-1..MaxMinor
MaxOpt     == 2    \* optional fields per extension slot
MaxTrees   == 2    \* trees per model / tree records per artifact
MaxNodes   == 2    \* nodes per tree
MaxEncodes == 2    \* encode calls per run
MaxCalls   == 3    \* calls made on a Serializer directly
MaxAstNodes == 4   \* nodes of an AST

(***************************************************************************)
(* Program constants                                                       *)
(***************************************************************************)
LegacyMajor == 3
LegacyMinor == 9
MaxTaskType == 255  \* largest value of std::uint8_t, the type underneath TaskType

kBinaryClf       == 0
kRegressor       == 1
kMultiClf        == 2
kLearningToRank  == 3
kIsolationForest == 4

TypePairs == { [threshold |-> "float32", leaf |-> "float32"],
               [threshold |-> "float64", leaf |-> "float64"] }

(***************************************************************************)
(* Data model                                                              *)
(***************************************************************************)
\* Tree<ThresholdType, LeafOutputType>() as value-initialised by emplace_back()
DefaultTree ==
  [ num_nodes                   |-> 0,
    has_categorical_split_      |-> FALSE,
    nodes_                      |-> << >>,
    leaf_vector_                |-> << >>,
    leaf_vector_begin_          |-> << >>,
    leaf_vector_end_            |-> << >>,
    matching_categories_        |-> << >>,
    matching_categories_offset_ |-> << >>,
    num_opt_field_per_tree_     |-> 0,
    num_opt_field_per_node_     |-> 0 ]

\* Model::Create(threshold_type, leaf_output_type): a fresh, empty Model
Create(threshold_type, leaf_output_type, ver) ==
  [ variant                  |-> [threshold |-> threshold_type, leaf |-> leaf_output_type],
    major_ver_               |-> ver.major,
    minor_ver_               |-> ver.minor,
    patch_ver_               |-> ver.patch,
    threshold_type_          |-> "invalid",
    leaf_output_type_        |-> "invalid",
    num_tree_                |-> 0,
    num_feature              |-> 0,
    task_type                |-> kBinaryClf,
    average_tree_output      |-> FALSE,
    task_param               |-> "default",
    param                    |-> "identity",
    num_opt_field_per_model_ |-> 0,
    trees                    |-> << >> ]

NoModel == Create("none", "none", [major |-> 0, minor |-> 0, patch |-> 0])

GetThresholdType(m)  == m.variant.threshold
GetLeafOutputType(m) == m.variant.leaf
GetNumTree(m)        == Len(m.trees)

\* One transport unit: the field written and its value
Unit(k, v) == [k |-> k, v |-> v]

(***************************************************************************)
(* Serializer                                                              *)
(***************************************************************************)
\* SerializeHeader without  model.num_tree_ = GetNumTree()
SerializeHeaderStaleCount(m, ver) ==
  LET m1 == [m EXCEPT !.major_ver_ = ver.major,
                      !.minor_ver_ = ver.minor,
                      !.patch_ver_ = ver.patch,
                      !.threshold_type_   = GetThresholdType(m),
                      !.leaf_output_type_ = GetLeafOutputType(m),
                      !.num_opt_field_per_model_ = 0]
  IN [ model |-> m1,
       out   |-> << Unit("major_ver", m1.major_ver_),
                    Unit("minor_ver", m1.minor_ver_),
                    Unit("patch_ver", m1.patch_ver_),
                    Unit("threshold_type", m1.threshold_type_),
                    Unit("leaf_output_type", m1.leaf_output_type_),
                    Unit("num_tree", m1.num_tree_),
                    Unit("num_feature", m1.num_feature),
                    Unit("task_type", m1.task_type),
                    Unit("average_tree_output", m1.average_tree_output),
                    Unit("task_param", m1.task_param),
                    Unit("param", m1.param),
                    Unit("num_opt_field_per_model", m1.num_opt_field_per_model_) >> ]

\* SerializeHeader writing the feature count in front of the tree count
SerializeHeaderSwapped(m, ver) ==
  LET m1 == [m EXCEPT !.major_ver_ = ver.major,
                      !.minor_ver_ = ver.minor,
                      !.patch_ver_ = ver.patch,
                      !.threshold_type_   = GetThresholdType(m),
                      !.leaf_output_type_ = GetLeafOutputType(m),
                      !.num_tree_ = GetNumTree(m),
                      !.num_opt_field_per_model_ = 0]
  IN [ model |-> m1,
       out   |-> << Unit("major_ver", m1.major_ver_),
                    Unit("minor_ver", m1.minor_ver_),
                    Unit("patch_ver", m1.patch_ver_),
                    Unit("threshold_type", m1.threshold_type_),
                    Unit("leaf_output_type", m1.leaf_output_type_),
                    Unit("num_feature", m1.num_feature),
                    Unit("num_tree", m1.num_tree_),
                    Unit("task_type", m1.task_type),
                    Unit("average_tree_output", m1.average_tree_output),
                    Unit("task_param", m1.task_param),
                    Unit("param", m1.param),
                    Unit("num_opt_field_per_model", m1.num_opt_field_per_model_) >> ]

SerializeHeader(m, ver) ==
  LET m1 == [m EXCEPT !.major_ver_ = ver.major,
                      !.minor_ver_ = ver.minor,
                      !.patch_ver_ = ver.patch,
                      !.threshold_type_   = GetThresholdType(m),
                      !.leaf_output_type_ = GetLeafOutputType(m),
                      !.num_tree_ = GetNumTree(m),
                      !.num_opt_field_per_model_ = 0]
  IN [ model |-> m1,
       out   |-> << Unit("major_ver", m1.major_ver_),
                    Unit("minor_ver", m1.minor_ver_),
                    Unit("patch_ver", m1.patch_ver_),
                    Unit("threshold_type", m1.threshold_type_),
                    Unit("leaf_output_type", m1.leaf_output_type_),
                    Unit("num_tree", m1.num_tree_),
                    Unit("num_feature", m1.num_feature),
                    Unit("task_type", m1.task_type),
                    Unit("average_tree_output", m1.average_tree_output),
                    Unit("task_param", m1.task_param),
                    Unit("param", m1.param),
                    Unit("num_opt_field_per_model", m1.num_opt_field_per_model_) >> ]

\* SerializeTree without the TREELITE_CHECK_EQ on the node count
SerializeTreeNoCheck(tree) ==
  LET t1 == [tree EXCEPT !.num_opt_field_per_tree_ = 0,
                         !.num_opt_field_per_node_ = 0]
  IN [ ok   |-> TRUE,
       tree |-> t1,
       out  |-> << Unit("num_nodes", t1.num_nodes),
                   Unit("has_categorical_split", t1.has_categorical_split_),
                   Unit("nodes", t1.nodes_),
                   Unit("leaf_vector", t1.leaf_vector_),
                   Unit("leaf_vector_begin", t1.leaf_vector_begin_),
                   Unit("leaf_vector_end", t1.leaf_vector_end_),
                   Unit("matching_categories", t1.matching_categories_),
                   Unit("matching_categories_offset", t1.matching_categories_offset_),
                   Unit("num_opt_field_per_tree", t1.num_opt_field_per_tree_),
                   Unit("num_opt_field_per_node", t1.num_opt_field_per_node_) >> ]

\* SerializeTree writing leaf_vector_end_ in front of leaf_vector_begin_
SerializeTreeSwapped(tree) ==
  IF tree.num_nodes # Len(tree.nodes_)
  THEN [ok |-> FALSE, tree |-> tree, out |-> << >>]
  ELSE LET t1 == [tree EXCEPT !.num_opt_field_per_tree_ = 0,
                              !.num_opt_field_per_node_ = 0]
       IN [ ok   |-> TRUE,
            tree |-> t1,
            out  |-> << Unit("num_nodes", t1.num_nodes),
                        Unit("has_categorical_split", t1.has_categorical_split_),
                        Unit("nodes", t1.nodes_),
                        Unit("leaf_vector", t1.leaf_vector_),
                        Unit("leaf_vector_end", t1.leaf_vector_end_),
                        Unit("leaf_vector_begin", t1.leaf_vector_begin_),
                        Unit("matching_categories", t1.matching_categories_),
                        Unit("matching_categories_offset", t1.matching_categories_offset_),
                        Unit("num_opt_field_per_tree", t1.num_opt_field_per_tree_),
                        Unit("num_opt_field_per_node", t1.num_opt_field_per_node_) >> ]

\* SerializeTree handing leaf_vector_ over to the mix-in (the tree's own
\* array is left empty)
SerializeTreeMoveOut(tree) ==
  IF tree.num_nodes # Len(tree.nodes_)
  THEN [ok |-> FALSE, tree |-> tree, out |-> << >>]
  ELSE LET t1 == [tree EXCEPT !.num_opt_field_per_tree_ = 0,
                              !.num_opt_field_per_node_ = 0]
       IN [ ok   |-> TRUE,
            tree |-> [t1 EXCEPT !.leaf_vector_ = << >>],
            out  |-> << Unit("num_nodes", t1.num_nodes),
                        Unit("has_categorical_split", t1.has_categorical_split_),
                        Unit("nodes", t1.nodes_),
                        Unit("leaf_vector", t1.leaf_vector_),
                        Unit("leaf_vector_begin", t1.leaf_vector_begin_),
                        Unit("leaf_vector_end", t1.leaf_vector_end_),
                        Unit("matching_categories", t1.matching_categories_),
                        Unit("matching_categories_offset", t1.matching_categories_offset_),
                        Unit("num_opt_field_per_tree", t1.num_opt_field_per_tree_),
                        Unit("num_opt_field_per_node", t1.num_opt_field_per_node_) >> ]

SerializeTree(tree) ==
  IF tree.num_nodes # Len(tree.nodes_)
  THEN [ok |-> FALSE, tree |-> tree, out |-> << >>]
  ELSE LET t1 == [tree EXCEPT !.num_opt_field_per_tree_ = 0,
                              !.num_opt_field_per_node_ = 0]
       IN [ ok   |-> TRUE,
            tree |-> t1,
            out  |-> << Unit("num_nodes", t1.num_nodes),
                        Unit("has_categorical_split", t1.has_categorical_split_),
                        Unit("nodes", t1.nodes_),
                        Unit("leaf_vector", t1.leaf_vector_),
                        Unit("leaf_vector_begin", t1.leaf_vector_begin_),
                        Unit("leaf_vector_end", t1.leaf_vector_end_),
                        Unit("matching_categories", t1.matching_categories_),
                        Unit("matching_categories_offset", t1.matching_categories_offset_),
                        Unit("num_opt_field_per_tree", t1.num_opt_field_per_tree_),
                        Unit("num_opt_field_per_node", t1.num_opt_field_per_node_) >> ]

\* the loop of SerializeTrees from tree i on; stops at the first fatal error
RECURSIVE SerializeTreeLoop(_, _)
SerializeTreeLoop(trees, i) ==
  IF i > Len(trees)
  THEN [ok |-> TRUE, trees |-> trees, out |-> << >>]
  ELSE LET r == SerializeTree(trees[i])
       IN IF ~r.ok
          THEN [ok |-> FALSE, trees |-> trees, out |-> << >>]
          ELSE LET rest == SerializeTreeLoop([trees EXCEPT ![i] = r.tree], i + 1)
               IN [ok |-> rest.ok, trees |-> rest.trees, out |-> r.out \o rest.out]

\* SerializeTrees without the TREELITE_CHECK_EQ on the tree count
SerializeTreesNoCheck(m) ==
  LET r == SerializeTreeLoop(m.trees, 1)
  IN [ok |-> r.ok, model |-> [m EXCEPT !.trees = r.trees], out |-> r.out]

SerializeTrees(m) ==
  IF Len(m.trees) # m.num_tree_
  THEN [ok |-> FALSE, model |-> m, out |-> << >>]
  ELSE LET r == SerializeTreeLoop(m.trees, 1)
       IN [ok |-> r.ok, model |-> [m EXCEPT !.trees = r.trees], out |-> r.out]

\* SerializeHeader followed by SerializeTrees on one mix-in
Serialize(m, ver) ==
  LET h == SerializeHeader(m, ver)
      t == SerializeTrees(h.model)
  IN [ok |-> t.ok, model |-> t.model, out |-> h.out \o t.out]

(***************************************************************************)
(* Deserializer                                                            *)
(***************************************************************************)
\* DeserializePrimitiveField / CompositeField / Array: the value of the next
\* unit, pos being the number of units consumed so far
Read(a, pos) == a[pos + 1].v

\* SkipCount with the loop bound off by one:  for (i = 1; i < n; ++i)
SkipCountOffByOne(n) == IF n - 1 > 0 THEN n - 1 ELSE 0

\* number of SkipOptionalField calls made by  for (i = 0; i < n; ++i)
SkipCount(n) == IF n > 0 THEN n ELSE 0

\* trace of a decode: the units read and skipped, in order, with the points
\* where the Model is created and where a node count is checked
ReadEvents(a, from, to) == [i \in 1..(to - from) |-> [op |-> "read", k |-> a[from + i].k]]

SkipEvents(a, from, n) == [i \in 1..n |-> [op |-> "skip", k |-> a[from + i].k]]

CreateEvent == [op |-> "create", k |-> "Model"]

CheckEvent == [op |-> "check", k |-> "num_nodes"]

Version(major, minor, patch) == [major |-> major, minor |-> minor, patch |-> patch]

\* DeserializeHeaderAndCreateModelV3 reading the tree count into a local
\* before it calls Model::Create
DeserializeHeaderAndCreateModelV3LateCreate(a, major_ver, minor_ver, patch_ver) ==
  LET threshold_type   == Read(a, 3)
      leaf_output_type == Read(a, 4)
      num_tree         == Read(a, 5)
      m0 == Create(threshold_type, leaf_output_type,
                   Version(major_ver, minor_ver, patch_ver))
      m1 == [m0 EXCEPT !.num_tree_ = num_tree,
                       !.num_feature = Read(a, 6),
                       !.average_tree_output = Read(a, 8),
                       !.num_opt_field_per_model_ = Read(a, 11)]
      skips == SkipCount(m1.num_opt_field_per_model_)
  IN [ status |-> "ok", model |-> m1, header |-> "legacy", created |-> TRUE,
       warn |-> << >>, skips |-> skips, pos |-> 12 + skips,
       events |-> ReadEvents(a, 3, 6) \o << CreateEvent >> \o ReadEvents(a, 6, 12)
                    \o SkipEvents(a, 12, skips) ]

DeserializeHeaderAndCreateModelV3(a, major_ver, minor_ver, patch_ver) ==
  LET threshold_type   == Read(a, 3)
      leaf_output_type == Read(a, 4)
      m0 == Create(threshold_type, leaf_output_type,
                   Version(major_ver, minor_ver, patch_ver))
      \* units 7, 9 and 10 go to the locals task_type, task_param, model_param
      m1 == [m0 EXCEPT !.num_tree_ = Read(a, 5),
                       !.num_feature = Read(a, 6),
                       !.average_tree_output = Read(a, 8),
                       !.num_opt_field_per_model_ = Read(a, 11)]
      skips == SkipCount(m1.num_opt_field_per_model_)
  IN [ status |-> "ok", model |-> m1, header |-> "legacy", created |-> TRUE,
       warn |-> << >>, skips |-> skips, pos |-> 12 + skips,
       events |-> ReadEvents(a, 3, 5) \o << CreateEvent >> \o ReadEvents(a, 5, 12)
                    \o SkipEvents(a, 12, skips) ]

\* IsRejected that lets every newer major through
IsRejectedOlderOnly(major_ver, minor_ver, ver) ==
  major_ver < ver.major /\ ~(major_ver = LegacyMajor /\ minor_ver = LegacyMinor)

\* IsNewer that also warns when the stored minor equals the current one
IsNewerOrEqual(major_ver, minor_ver, ver) ==
  major_ver = ver.major /\ minor_ver >= ver.minor

\* the three conditions of the if / else if chain on the stored version
IsRejected(major_ver, minor_ver, ver) ==
  major_ver # ver.major /\ ~(major_ver = LegacyMajor /\ minor_ver = LegacyMinor)

IsLegacy(major_ver, minor_ver) ==
  major_ver = LegacyMajor /\ minor_ver = LegacyMinor

IsNewer(major_ver, minor_ver, ver) ==
  major_ver = ver.major /\ minor_ver > ver.minor

DeserializeHeaderAndCreateModel(a, ver) ==
  LET major_ver == Read(a, 0)
      minor_ver == Read(a, 1)
      patch_ver == Read(a, 2)
  IN IF IsRejected(major_ver, minor_ver, ver)
     THEN [ status |-> "fatal", model |-> NoModel, header |-> "none", created |-> FALSE,
            warn |-> << >>, skips |-> 0, pos |-> 3, events |-> ReadEvents(a, 0, 3) ]
     ELSE IF IsLegacy(major_ver, minor_ver)
     THEN LET h == DeserializeHeaderAndCreateModelV3(a, major_ver, minor_ver, patch_ver)
          IN [ h EXCEPT !.warn = << "legacy" >>,
                        !.events = ReadEvents(a, 0, 3) \o h.events ]
     ELSE
       LET warn == IF IsNewer(major_ver, minor_ver, ver)
                   THEN << "newer" >> ELSE << >>
           threshold_type   == Read(a, 3)
           leaf_output_type == Read(a, 4)
           m0 == Create(threshold_type, leaf_output_type,
                        Version(major_ver, minor_ver, patch_ver))
           m1 == [m0 EXCEPT !.num_tree_ = Read(a, 5),
                            !.num_feature = Read(a, 6),
                            !.task_type = Read(a, 7),
                            !.average_tree_output = Read(a, 8),
                            !.task_param = Read(a, 9),
                            !.param = Read(a, 10)]
           use_opt_field == (major_ver >= 3)
       IN IF use_opt_field
          THEN LET m2 == [m1 EXCEPT !.num_opt_field_per_model_ = Read(a, 11)]
                   skips == SkipCount(m2.num_opt_field_per_model_)
               IN [ status |-> "ok", model |-> m2, header |-> "current", created |-> TRUE,
                    warn |-> warn, skips |-> skips, pos |-> 12 + skips,
                    events |-> ReadEvents(a, 0, 5) \o << CreateEvent >>
                                 \o ReadEvents(a, 5, 12) \o SkipEvents(a, 12, skips) ]
          ELSE [ status |-> "fatal", model |-> NoModel, header |-> "current",
                 created |-> TRUE, warn |-> warn, skips |-> 0, pos |-> 11,
                 events |-> ReadEvents(a, 0, 5) \o << CreateEvent >>
                              \o ReadEvents(a, 5, 11) ]

\* body is a TODO in the source: nothing is read, the tree stays as constructed
DeserializeTree(a, pos, tree) ==
  [ok |-> TRUE, tree |-> tree, pos |-> pos, events |-> << >>]

DeserializeTreeV3(a, pos, tree) ==
  LET num_nodes == Read(a, pos)
      has_cat   == Read(a, pos + 1)
      nodes     == Read(a, pos + 2)     \* local ContiguousArray<NodeV3>
      t1 == [tree EXCEPT !.num_nodes = num_nodes,
                         !.has_categorical_split_ = has_cat]
  IN IF num_nodes # Len(nodes)
     THEN [ok |-> FALSE, tree |-> t1, pos |-> pos + 3,
           events |-> ReadEvents(a, pos, pos + 3) \o << CheckEvent >>]
     ELSE
       LET t2 == [t1 EXCEPT !.leaf_vector_ = Read(a, pos + 3),
                            !.leaf_vector_begin_ = Read(a, pos + 4),
                            !.leaf_vector_end_ = Read(a, pos + 5),
                            !.matching_categories_ = Read(a, pos + 6),
                            !.matching_categories_offset_ = Read(a, pos + 7),
                            !.num_opt_field_per_tree_ = Read(a, pos + 8)]
           p1 == pos + 9 + SkipCount(t2.num_opt_field_per_tree_)
           t3 == [t2 EXCEPT !.num_opt_field_per_node_ = Read(a, p1)]
           p2 == p1 + 1 + SkipCount(t3.num_opt_field_per_node_)
       IN [ok |-> TRUE, tree |-> t3, pos |-> p2,
           events |-> ReadEvents(a, pos, pos + 3) \o << CheckEvent >>
                        \o ReadEvents(a, pos + 3, pos + 9)
                        \o SkipEvents(a, pos + 9, SkipCount(t2.num_opt_field_per_tree_))
                        \o ReadEvents(a, p1, p1 + 1)
                        \o SkipEvents(a, p1 + 1, SkipCount(t3.num_opt_field_per_node_))]

\* the loop of DeserializeTrees: i trees are still to be appended
RECURSIVE DeserializeTreeLoop(_, _, _, _)
DeserializeTreeLoop(a, pos, trees, i) ==
  IF i = 0
  THEN [ok |-> TRUE, trees |-> trees, pos |-> pos, events |-> << >>]
  ELSE LET r == DeserializeTree(a, pos, DefaultTree)
       IN IF ~r.ok
          THEN [ok |-> FALSE, trees |-> Append(trees, r.tree), pos |-> r.pos,
                events |-> r.events]
          ELSE LET rest == DeserializeTreeLoop(a, r.pos, Append(trees, r.tree), i - 1)
               IN [rest EXCEPT !.events = r.events \o rest.events]

RECURSIVE DeserializeTreeLoopV3(_, _, _, _)
DeserializeTreeLoopV3(a, pos, trees, i) ==
  IF i = 0
  THEN [ok |-> TRUE, trees |-> trees, pos |-> pos, events |-> << >>]
  ELSE LET r == DeserializeTreeV3(a, pos, DefaultTree)
       IN IF ~r.ok
          THEN [ok |-> FALSE, trees |-> Append(trees, r.tree), pos |-> r.pos,
                events |-> r.events]
          ELSE LET rest == DeserializeTreeLoopV3(a, r.pos, Append(trees, r.tree), i - 1)
               IN [rest EXCEPT !.events = r.events \o rest.events]

DeserializeTrees(a, pos, m) ==
  LET r == DeserializeTreeLoop(a, pos, << >>, m.num_tree_)
  IN [ok |-> r.ok, model |-> [m EXCEPT !.trees = r.trees], pos |-> r.pos,
      events |-> r.events]

DeserializeTreesV3(a, pos, m) ==
  LET r == DeserializeTreeLoopV3(a, pos, << >>, m.num_tree_)
  IN [ok |-> r.ok, model |-> [m EXCEPT !.trees = r.trees], pos |-> r.pos,
      events |-> r.events]

NoResult ==
  [ status |-> "none", model |-> NoModel, input |-> << >>, header |-> "none",
    body |-> "none", created |-> FALSE, warn |-> << >>, skips |-> 0,
    pos |-> 0, treepos |-> 0, events |-> << >> ]

\* what a decode entry point leaves behind: h is the header outcome, layout
\* the tree reader chosen, t its outcome
Outcome(a, h, layout, t) ==
  IF h.status # "ok"
  THEN [ status |-> "fatal", model |-> NoModel, input |-> a, header |-> h.header,
         body |-> "none", created |-> h.created, warn |-> h.warn,
         skips |-> h.skips, pos |-> h.pos, treepos |-> 0, events |-> h.events ]
  ELSE [ status |-> IF t.ok THEN "ok" ELSE "fatal",
         model |-> IF t.ok THEN t.model ELSE NoModel,
         input |-> a, header |-> h.header, body |-> layout, created |-> h.created,
         warn |-> h.warn, skips |-> h.skips, pos |-> t.pos, treepos |-> h.pos,
         events |-> h.events \o t.events ]

ModelCreateFromPyBuffer(frames, ver) ==
  LET h == DeserializeHeaderAndCreateModel(frames, ver)
  IN Outcome(frames, h, "current", DeserializeTrees(frames, h.pos, h.model))

ModelDeserializeFromStream(is, ver) ==
  LET h == DeserializeHeaderAndCreateModel(is, ver)
  IN IF h.status = "ok" /\ h.model.major_ver_ = 3
     THEN Outcome(is, h, "legacy", DeserializeTreesV3(is, h.pos, h.model))
     ELSE Outcome(is, h, "current", DeserializeTrees(is, h.pos, h.model))

(***************************************************************************)
(* Inputs: models built by a frontend, artifacts received from elsewhere   *)
(***************************************************************************)
CurVersions ==
  { Version(ma, mi, 0) : ma \in LegacyMajor..MaxMajor, mi \in LegacyMinor..MaxMinor }

StoredVersions ==
  { Version(ma, mi, 0) : ma \in (LegacyMajor - 1)..(MaxMajor + 1),
                         mi \in (LegacyMinor - 1)..MaxMinor }

\* a tree of n nodes declaring `declared` nodes; a rich tree has one leaf-vector
\* element per node and one category list; k is the value left in the two
\* optional-field counts
MkTree(n, declared, rich, k) ==
  [ num_nodes                   |-> declared,
    has_categorical_split_      |-> rich,
    nodes_                      |-> [i \in 1..n |-> i],
    leaf_vector_                |-> IF rich THEN [i \in 1..n |-> 10 + i] ELSE << >>,
    leaf_vector_begin_          |-> [i \in 1..n |-> IF rich THEN i - 1 ELSE 0],
    leaf_vector_end_            |-> [i \in 1..n |-> IF rich THEN i ELSE 0],
    matching_categories_        |-> IF rich THEN << 7 >> ELSE << >>,
    matching_categories_offset_ |-> [i \in 1..(n + 1) |-> IF rich /\ i > 1 THEN 1 ELSE 0],
    num_opt_field_per_tree_     |-> k,
    num_opt_field_per_node_     |-> k ]

\* the last one declares a node more than it has
FrontendTrees(k) ==
  { MkTree(1, 1, FALSE, k), MkTree(MaxNodes, MaxNodes, TRUE, k),
    MkTree(MaxNodes, MaxNodes + 1, FALSE, k) }

TreeLists(S) == UNION { [1..n -> S] : n \in 0..MaxTrees }

Profiles ==
  { [num_feature |-> 10, task_type |-> kRegressor, average_tree_output |-> FALSE,
     task_param |-> "regr", param |-> "identity"],
    [num_feature |-> 4, task_type |-> kMultiClf, average_tree_output |-> TRUE,
     task_param |-> "multi", param |-> "softmax"] }

\* a model as a frontend hands it over; the bookkeeping fields are recomputed
\* at serialization time and may hold anything before (stale)
FrontendModel(pair, pr, trees, stale) ==
  [ Create(pair.threshold, pair.leaf, Version(0, 0, 0)) EXCEPT
      !.num_feature = pr.num_feature,
      !.task_type = pr.task_type,
      !.average_tree_output = pr.average_tree_output,
      !.task_param = pr.task_param,
      !.param = pr.param,
      !.trees = trees,
      !.num_tree_ = IF stale THEN Len(trees) + 1 ELSE Len(trees),
      !.num_opt_field_per_model_ = IF stale THEN MaxOpt ELSE 0 ]

FrontendModels ==
  { FrontendModel(pair, pr, trees, stale) :
      pair \in TypePairs, pr \in Profiles,
      trees \in TreeLists(FrontendTrees(0)), stale \in {FALSE} }
  \cup
  { FrontendModel(pair, pr, trees, stale) :
      pair \in TypePairs, pr \in Profiles,
      trees \in TreeLists(FrontendTrees(MaxOpt)), stale \in {TRUE} }

OptFields(k) == [i \in 1..k |-> Unit("optional_field", i)]

\* one tree record of an artifact, carrying kt per-tree and kn per-node
\* optional fields
TreeRecord(t, kt, kn) ==
  << Unit("num_nodes", t.num_nodes),
     Unit("has_categorical_split", t.has_categorical_split_),
     Unit("nodes", t.nodes_),
     Unit("leaf_vector", t.leaf_vector_),
     Unit("leaf_vector_begin", t.leaf_vector_begin_),
     Unit("leaf_vector_end", t.leaf_vector_end_),
     Unit("matching_categories", t.matching_categories_),
     Unit("matching_categories_offset", t.matching_categories_offset_),
     Unit("num_opt_field_per_tree", kt) >> \o OptFields(kt)
  \o << Unit("num_opt_field_per_node", kn) >> \o OptFields(kn)

\* a tree whose leaf-vector ranges run backwards (begin > end)
BadRangeTree ==
  [ MkTree(MaxNodes, MaxNodes, TRUE, 0) EXCEPT
      !.leaf_vector_begin_ = [i \in 1..MaxNodes |-> i],
      !.leaf_vector_end_   = [i \in 1..MaxNodes |-> i - 1] ]

ArtifactTrees ==
  { TreeRecord(MkTree(1, 1, FALSE, 0), 0, 0),
    TreeRecord(MkTree(MaxNodes, MaxNodes, TRUE, 0), MaxOpt, MaxOpt),
    TreeRecord(MkTree(MaxNodes - 1, MaxNodes, FALSE, 0), 0, 0),
    TreeRecord(BadRangeTree, 0, 0) }

RECURSIVE Flatten(_)
Flatten(ss) == IF ss = << >> THEN << >> ELSE Head(ss) \o Flatten(Tail(ss))

\* a structurally complete artifact: every declared count of trees and of
\* optional fields is matched by what follows
Artifact(ver, pair, pr, k, recs) ==
  << Unit("major_ver", ver.major),
     Unit("minor_ver", ver.minor),
     Unit("patch_ver", ver.patch),
     Unit("threshold_type", pair.threshold),
     Unit("leaf_output_type", pair.leaf),
     Unit("num_tree", Len(recs)),
     Unit("num_feature", pr.num_feature),
     Unit("task_type", pr.task_type),
     Unit("average_tree_output", pr.average_tree_output),
     Unit("task_param", pr.task_param),
     Unit("param", pr.param),
     Unit("num_opt_field_per_model", k) >> \o OptFields(k) \o Flatten(recs)

ArtifactProfile == CHOOSE pr \in Profiles : pr.task_type = kRegressor

Artifacts ==
  { Artifact(ver, pair, ArtifactProfile, k, recs) :
      ver \in StoredVersions, pair \in TypePairs, k \in 0..MaxOpt,
      recs \in TreeLists(ArtifactTrees) }

(***************************************************************************)
(* State machine                                                           *)
(***************************************************************************)
InitEncode ==
  /\ cur \in CurVersions
  /\ model \in FrontendModels
  /\ encoded = << >>
  /\ input = << >>
  /\ pyRes = NoResult
  /\ stRes = NoResult

InitDecode ==
  /\ cur \in CurVersions
  /\ model = NoModel
  /\ encoded = << >>
  /\ input \in Artifacts
  /\ pyRes = NoResult
  /\ stRes = NoResult

(***************************************************************************)
(* count_descendant.cc: number of descendants of each AST node             *)
(***************************************************************************)
\* An AST is a record: n nodes 1..n, main_node being node 1; parent[i] for
\* i > 1; folder[i] says node i is a CodeFolderNode; num[i] is
\* num_descendant_ast_node of node i; visited is the set of nodes count was
\* called on; runs is the number of CountDescendant calls made.
NoAST == [n |-> 0, parent |-> << >>, folder |-> << >>, num |-> << >>,
          visited |-> {}, runs |-> 0]

\* node->children, in order
RECURSIVE ChildrenFrom(_, _, _)
ChildrenFrom(t, node, i) ==
  IF i > t.n THEN << >>
  ELSE IF t.parent[i] = node THEN << i >> \o ChildrenFrom(t, node, i + 1)
  ELSE ChildrenFrom(t, node, i + 1)

Children(t, node) == ChildrenFrom(t, node, node + 1)

\* count that does not exempt a CodeFolderNode
RECURSIVE countNoExempt(_, _)
RECURSIVE loopNoExempt(_, _, _)
loopNoExempt(t, kids, accum) ==
  IF kids = << >> THEN [ast |-> t, accum |-> accum]
  ELSE LET c == countNoExempt(t, Head(kids))
       IN loopNoExempt(c.ast, Tail(kids), accum + c.ret + 1)

countNoExempt(t, node) ==
  LET l == loopNoExempt([t EXCEPT !.visited = @ \cup {node}], Children(t, node), 0)
  IN [ast |-> [l.ast EXCEPT !.num[node] = l.accum], ret |-> l.accum]

\* static int count(ASTNode* node), with its for loop over node->children
RECURSIVE count(_, _)
RECURSIVE countLoop(_, _, _)
countLoop(t, kids, accum) ==
  IF kids = << >> THEN [ast |-> t, accum |-> accum]
  ELSE LET c == count(t, Head(kids))
       IN countLoop(c.ast, Tail(kids), accum + c.ret + 1)

count(t, node) ==
  IF t.folder[node]
  THEN [ast |-> [t EXCEPT !.num[node] = 0, !.visited = @ \cup {node}], ret |-> 0]
  ELSE LET l == countLoop([t EXCEPT !.visited = @ \cup {node}], Children(t, node), 0)
       IN [ast |-> [l.ast EXCEPT !.num[node] = l.accum], ret |-> l.accum]

\* void ASTBuilder::CountDescendant()
ASTBuilderCountDescendant(t) == [count(t, 1).ast EXCEPT !.runs = @ + 1]

\* the ASTs considered: every tree shape of up to MaxAstNodes nodes, any node
\* a CodeFolderNode, num_descendant_ast_node holding a value no count gives
ASTs ==
  UNION { { [n |-> n, parent |-> pa, folder |-> fo, num |-> [i \in 1..n |-> n + i],
             visited |-> {}, runs |-> 0] :
              pa \in { f \in [1..n -> 0..(n - 1)] :
                         \A i \in 1..n : f[i] < i /\ (i > 1 => f[i] >= 1) },
              fo \in [1..n -> BOOLEAN] }
          : n \in 1..MaxAstNodes }

(***************************************************************************)
(* task_type.h: the text codes of TaskType                                 *)
(***************************************************************************)
\* TaskTypeToString giving kLearningToRank the code of kMultiClf
TaskTypeToStringDup(type) ==
  CASE type = kBinaryClf       -> "kBinaryClf"
    [] type = kRegressor       -> "kRegressor"
    [] type = kMultiClf        -> "kMultiClf"
    [] type = kLearningToRank  -> "kMultiClf"
    [] type = kIsolationForest -> "kIsolationForest"
    [] OTHER                   -> ""

\* stands for "no TaskType": nothing converted, nothing returned
NoTaskType == -1

\* std::string TaskTypeToString(TaskType type)
TaskTypeToString(type) ==
  CASE type = kBinaryClf       -> "kBinaryClf"
    [] type = kRegressor       -> "kRegressor"
    [] type = kMultiClf        -> "kMultiClf"
    [] type = kLearningToRank  -> "kLearningToRank"
    [] type = kIsolationForest -> "kIsolationForest"
    [] OTHER                   -> ""

\* TaskType StringToTaskType(std::string const& str): TREELITE_LOG(FATAL)
\* throws, so the return after it is never reached
StringToTaskType(str) ==
  IF str = "kBinaryClf" THEN [status |-> "ok", value |-> kBinaryClf]
  ELSE IF str = "kRegressor" THEN [status |-> "ok", value |-> kRegressor]
  ELSE IF str = "kMultiClf" THEN [status |-> "ok", value |-> kMultiClf]
  ELSE IF str = "kLearningToRank" THEN [status |-> "ok", value |-> kLearningToRank]
  ELSE IF str = "kIsolationForest" THEN [status |-> "ok", value |-> kIsolationForest]
  ELSE [status |-> "fatal", value |-> NoTaskType]

\* every value a TaskType object can hold (std::uint8_t underneath)
TaskTypes == 0..MaxTaskType

\* strings handed to StringToTaskType: the five codes, near misses, names of
\* the legacy task types and the empty string
TaskStrings ==
  { "kBinaryClf", "kRegressor", "kMultiClf", "kLearningToRank", "kIsolationForest",
    "", "kbinaryclf", "BinaryClf", "kRegressor ", "kMultiClfGrovePerClass",
    "kBinaryClfRegr", "0" }

NoConversion ==
  [op |-> "none", arg |-> "none", from |-> NoTaskType, status |-> "none", value |-> "none"]

InitTaskType ==
  /\ cur \in CurVersions
  /\ model = NoModel
  /\ encoded = << >>
  /\ input = << >>
  /\ pyRes = NoResult
  /\ stRes = NoResult
  /\ direct = << >>
  /\ task = NoConversion
  /\ ops = << >>
  /\ os = << >>
  /\ ast = NoAST

CallTaskTypeToString ==
  /\ \E type \in TaskTypes :
        task' = [op |-> "TaskTypeToString", arg |-> type, from |-> NoTaskType,
                 status |-> "ok", value |-> TaskTypeToString(type)]
  /\ UNCHANGED <<cur, model, encoded, input, pyRes, stRes, direct, ops, os, ast>>

CallStringToTaskType ==
  /\ \E str \in TaskStrings :
        LET r == StringToTaskType(str)
        IN task' = [op |-> "StringToTaskType", arg |-> str, from |-> NoTaskType,
                    status |-> r.status, value |-> r.value]
  /\ UNCHANGED <<cur, model, encoded, input, pyRes, stRes, direct, ops, os, ast>>

\* StringToTaskType(TaskTypeToString(type)): the string just produced is
\* converted back
ConvertBack ==
  /\ task.op = "TaskTypeToString"
  /\ LET r == StringToTaskType(task.value)
     IN task' = [op |-> "StringToTaskType", arg |-> task.value, from |-> task.arg,
                 status |-> r.status, value |-> r.value]
  /\ UNCHANGED <<cur, model, encoded, input, pyRes, stRes, direct, ops, os, ast>>

NextTaskType == CallTaskTypeToString \/ CallStringToTaskType \/ ConvertBack

SpecTaskType == InitTaskType /\ [][NextTaskType]_vars

\* no direct Serializer call, no conversion and no concurrent operation yet
Idle ==
  /\ direct = << >>
  /\ task = NoConversion
  /\ ops = << >>
  /\ os = << >>
  /\ ast = NoAST

Init == (InitEncode \/ InitDecode) /\ Idle

\* std::vector<PyBufferFrame> Model::GetPyBuffer(): the frames are returned
\* only when no fatal error was raised
GetPyBuffer ==
  /\ model # NoModel
  /\ Len(encoded) < MaxEncodes
  /\ LET e == Serialize(model, cur)
     IN /\ model' = e.model
        /\ encoded' = Append(encoded, [ via |-> "pybuffer", ok |-> e.ok,
                                        before |-> model,
                                        out |-> IF e.ok THEN e.out ELSE << >> ])
  /\ UNCHANGED <<cur, input, pyRes, stRes, others>>

\* void Model::SerializeToStream(std::ostream& os): every unit written before
\* a fatal error is already in os
SerializeToStream ==
  /\ model # NoModel
  /\ Len(encoded) < MaxEncodes
  /\ LET e == Serialize(model, cur)
     IN /\ model' = e.model
        /\ encoded' = Append(encoded, [ via |-> "stream", ok |-> e.ok,
                                        before |-> model, out |-> e.out ])
  /\ UNCHANGED <<cur, input, pyRes, stRes, others>>

Produced(via) ==
  { encoded[i].out : i \in { j \in 1..Len(encoded) : encoded[j].via = via /\ encoded[j].ok } }

Received == IF input = << >> THEN {} ELSE {input}

CreateFromPyBuffer ==
  /\ \E frames \in Received \cup Produced("pybuffer") :
        pyRes' = ModelCreateFromPyBuffer(frames, cur)
  /\ UNCHANGED <<cur, model, encoded, input, stRes, others>>

DeserializeFromStream ==
  /\ \E is \in Received \cup Produced("stream") :
        stRes' = ModelDeserializeFromStream(is, cur)
  /\ UNCHANGED <<cur, model, encoded, input, pyRes, others>>

Next ==
  \/ GetPyBuffer
  \/ SerializeToStream
  \/ CreateFromPyBuffer
  \/ DeserializeFromStream

Spec == Init /\ [][Next]_vars

(***************************************************************************)
(* Vocabulary of the properties                                            *)
(***************************************************************************)
Results == {pyRes, stRes}

Decoded(r) == r.status # "none"

StoredVersion(r) == Version(r.input[1].v, r.input[2].v, r.input[3].v)

TreeEq(t, u) ==
  /\ t.num_nodes = u.num_nodes
  /\ t.has_categorical_split_ = u.has_categorical_split_
  /\ t.nodes_ = u.nodes_
  /\ t.leaf_vector_ = u.leaf_vector_
  /\ t.leaf_vector_begin_ = u.leaf_vector_begin_
  /\ t.leaf_vector_end_ = u.leaf_vector_end_
  /\ t.matching_categories_ = u.matching_categories_
  /\ t.matching_categories_offset_ = u.matching_categories_offset_

\* equal field for field, the version stamp and the bookkeeping excluded
LogicalEq(m, n) ==
  /\ m.variant = n.variant
  /\ m.num_feature = n.num_feature
  /\ m.task_type = n.task_type
  /\ m.average_tree_output = n.average_tree_output
  /\ m.task_param = n.task_param
  /\ m.param = n.param
  /\ Len(m.trees) = Len(n.trees)
  /\ \A i \in 1..Len(m.trees) : TreeEq(m.trees[i], n.trees[i])

\* the completed encodes of a model with a non-empty tree collection
RoundTrips(via) ==
  { e \in { encoded[i] : i \in 1..Len(encoded) } :
      e.via = via /\ e.ok /\ Len(e.before.trees) > 0 }

\* C1: decoding what SerializeHeader and SerializeTrees wrote for a model with
\* a non-empty tree collection gives back a model equal to it field for field,
\* the version stamp excluded.
C1_RoundTrip ==
  /\ \A e \in RoundTrips("pybuffer") :
        (Decoded(pyRes) /\ pyRes.input = e.out)
          => (pyRes.status = "ok" /\ LogicalEq(pyRes.model, e.before))
  /\ \A e \in RoundTrips("stream") :
        (Decoded(stRes) /\ stRes.input = e.out)
          => (stRes.status = "ok" /\ LogicalEq(stRes.model, e.before))

\* the rows of the decision table, applied in order
TableOutcome(stored, current) ==
  IF stored.major = 3 /\ stored.minor = 9 THEN "LEGACY_MIGRATE"
  ELSE IF stored.major # current.major THEN "REJECT"
  ELSE IF stored.minor > current.minor THEN "WARN_FORWARD"
  ELSE "ACCEPT"

\* what a decode did, read off its trace
Took(r, outcome) ==
  CASE outcome = "LEGACY_MIGRATE" -> r.header = "legacy" /\ r.warn = << "legacy" >>
    [] outcome = "REJECT"         -> r.status = "fatal" /\ r.header = "none" /\ r.warn = << >>
    [] outcome = "WARN_FORWARD"   -> r.header = "current" /\ r.warn = << "newer" >>
    [] outcome = "ACCEPT"         -> r.header = "current" /\ r.warn = << >>

Outcomes == {"LEGACY_MIGRATE", "REJECT", "WARN_FORWARD", "ACCEPT"}

\* C2: for every stored and current version triple the header decode takes
\* exactly one outcome, the one the decision table gives.
C2_VersionTable ==
  \A r \in Results :
    Decoded(r) =>
      \A o \in Outcomes : Took(r, o) <=> (o = TableOutcome(StoredVersion(r), cur))

\* a 3.9 artifact read by a library whose own major is 3 and minor is not 9,
\* and, in the same run, nothing else decided the legacy path
C2_Witness ==
  /\ Decoded(pyRes) /\ Decoded(stRes)
  /\ cur.major = 3 /\ cur.minor # 9
  /\ StoredVersion(pyRes) = Version(3, 9, 0)
  /\ Took(pyRes, "LEGACY_MIGRATE") /\ Took(stRes, "LEGACY_MIGRATE")

\* C3: a stored major other than the current one (3.9 apart) ends the decode
\* in a fatal error after exactly the three version integers: no type tag is
\* read, no Model is created, none is returned, on both entry points.
C3_RejectBeforeBody ==
  \A r \in Results :
    (/\ Decoded(r)
     /\ StoredVersion(r).major # cur.major
     /\ ~(StoredVersion(r).major = 3 /\ StoredVersion(r).minor = 9))
    => (/\ r.status = "fatal"
        /\ r.pos = 3
        /\ ~r.created
        /\ r.model = NoModel
        /\ r.header = "none"
        /\ r.body = "none")

\* both entry points have rejected an artifact of a newer major that carries
\* tree records
C3_Witness ==
  /\ Decoded(pyRes) /\ Decoded(stRes)
  /\ StoredVersion(pyRes).major > cur.major
  /\ StoredVersion(stRes).major > cur.major
  /\ Len(pyRes.input) > 12
  /\ pyRes.status = "fatal" /\ stRes.status = "fatal"

\* C4: in every decode the tree bodies are read with the legacy layout exactly
\* when the header was read with the legacy layout, and with the current
\* layout exactly when the header was read with the current layout.
C4_LayoutsAgree ==
  \A r \in Results :
    (Decoded(r) /\ r.header # "none") => r.body = r.header

\* C5: the two decode entry points, given the same logical artifact, produce
\* logically identical models or both fail.
C5_TransportEquivalence ==
  (Decoded(pyRes) /\ Decoded(stRes) /\ pyRes.input = stRes.input)
    => /\ pyRes.status = stRes.status
       /\ pyRes.status = "ok" => LogicalEq(pyRes.model, stRes.model)

\* a model with every bookkeeping field overwritten
Scrub(m) ==
  [ m EXCEPT !.major_ver_ = 0, !.minor_ver_ = 0, !.patch_ver_ = 0,
             !.threshold_type_ = "invalid", !.leaf_output_type_ = "invalid",
             !.num_tree_ = 0,
             !.num_opt_field_per_model_ = 0,
             !.trees = [ i \in 1..Len(m.trees) |->
                           [ m.trees[i] EXCEPT !.num_opt_field_per_tree_ = 0,
                                               !.num_opt_field_per_node_ = 0 ] ] ]

\* what an encode call hands to its caller: GetPyBuffer returns frames only
\* when it completes, SerializeToStream has written whatever it got to
Handed(via, s) == IF via = "pybuffer" /\ ~s.ok THEN << >> ELSE s.out

\* C6: two encodes of the same model on the same transport produce the same
\* sequence of units, and the units depend only on the logical state and the
\* current version, not on what the bookkeeping fields held before the encode.
C6_Deterministic ==
  /\ \A i, j \in 1..Len(encoded) :
        encoded[i].via = encoded[j].via
          => (encoded[i].out = encoded[j].out /\ encoded[i].ok = encoded[j].ok)
  /\ \A i \in 1..Len(encoded) :
        LET s == Serialize(Scrub(encoded[i].before), cur)
        IN encoded[i].ok = s.ok /\ encoded[i].out = Handed(encoded[i].via, s)

\* a model with stale bookkeeping has been encoded twice on the stream
\* transport, completely
C6_Witness ==
  /\ Len(encoded) = 2
  /\ encoded[1].via = "stream" /\ encoded[2].via = "stream"
  /\ encoded[1].ok /\ encoded[2].ok
  /\ Len(encoded[1].before.trees) = 2
  /\ encoded[1].before.num_tree_ # 2
  /\ encoded[1].before.num_opt_field_per_model_ > 0
  /\ encoded[1].before.trees[1].num_opt_field_per_tree_ > 0
  /\ encoded[1].before # encoded[2].before

\* the model-level optional-field count stored in a decoded artifact
StoredK(r) == r.input[12].v

\* C7: on every non-rejected decode path the header reads the model-level
\* optional-field count K and skips exactly K fields, so tree reading starts at
\* the unit right after the K-th optional field.
C7_ExtensionTolerance ==
  \A r \in Results :
    (Decoded(r) /\ r.header # "none" /\ StoredK(r) >= 0) =>
      /\ r.input[12].k = "num_opt_field_per_model"
      /\ r.skips = StoredK(r)
      /\ r.treepos = 12 + StoredK(r)
      /\ \A i \in 13..r.treepos : r.input[i].k = "optional_field"
      /\ Len(r.input) > r.treepos => r.input[r.treepos + 1].k = "num_nodes"
      /\ (r.body = "legacy" /\ r.status = "ok" /\ Len(r.model.trees) > 0)
            => r.model.trees[1].num_nodes = r.input[13 + StoredK(r)].v

\* a legacy artifact with MaxOpt model-level optional fields and tree records
\* has been decoded from a stream, its first tree read from the right unit
C7_Witness ==
  /\ Decoded(stRes) /\ stRes.status = "ok"
  /\ stRes.header = "legacy" /\ stRes.body = "legacy"
  /\ StoredK(stRes) = MaxOpt /\ stRes.skips = MaxOpt
  /\ Len(stRes.model.trees) = MaxTrees
  /\ stRes.model.trees[1].num_nodes = MaxNodes

\* some tree record of the artifact declares a node count other than the
\* length of its node array
HasNodeCountMismatch(a) ==
  \E i \in 1..Len(a) : a[i].k = "num_nodes" /\ a[i].v # Len(a[i + 2].v)

\* C8: an artifact holding a tree record whose node array length differs from
\* its declared node count is never decoded: the decode is fatal and returns
\* no model, on the current and on the legacy path.
C8_NodeCountMismatchFatal ==
  \A r \in Results :
    (Decoded(r) /\ r.header # "none" /\ HasNodeCountMismatch(r.input))
      => (r.status = "fatal" /\ r.model = NoModel)

\* C9: in every model a decode returns, every tree's node array has as many
\* nodes as the tree's num_nodes says.
C9_NodeInvariant ==
  \A r \in Results :
    r.status = "ok" =>
      \A i \in 1..Len(r.model.trees) :
        Len(r.model.trees[i].nodes_) = r.model.trees[i].num_nodes

NonDecreasing(s) == \A i \in 1..(Len(s) - 1) : s[i] <= s[i + 1]

RangesOk(begin, end, offset) ==
  /\ Len(begin) = Len(end)
  /\ \A i \in 1..Len(begin) : begin[i] <= end[i]
  /\ \A i \in 1..(Len(begin) - 1) : end[i] <= begin[i + 1]
  /\ NonDecreasing(offset)

\* some tree record of the artifact carries range arrays that break the
\* range invariant
HasBadRanges(a) ==
  \E i \in 1..Len(a) :
    /\ a[i].k = "leaf_vector_begin"
    /\ ~RangesOk(a[i].v, a[i + 1].v, a[i + 3].v)

\* C10: every tree of every model a decode returns has leaf-vector ranges with
\* start[i] <= end[i] <= start[i+1] and a non-decreasing category range array,
\* and an artifact whose range arrays break this is never returned as a model.
C10_RangeInvariant ==
  \A r \in Results :
    r.status = "ok" =>
      /\ \A i \in 1..Len(r.model.trees) :
           RangesOk(r.model.trees[i].leaf_vector_begin_,
                    r.model.trees[i].leaf_vector_end_,
                    r.model.trees[i].matching_categories_offset_)
      /\ ~HasBadRanges(r.input)
\* position in the artifact of the first unit of its i-th tree record
RecordStart(a, i) ==
  LET S == { j \in 1..Len(a) : a[j].k = "num_nodes" }
  IN CHOOSE j \in S : Cardinality({ x \in S : x < j }) = i - 1

\* the tree holds what the tree record starting at unit j carries (the node
\* array apart)
FilledFrom(t, a, j) ==
  /\ t.num_nodes = a[j].v
  /\ t.has_categorical_split_ = a[j + 1].v
  /\ t.leaf_vector_ = a[j + 3].v
  /\ t.leaf_vector_begin_ = a[j + 4].v
  /\ t.leaf_vector_end_ = a[j + 5].v
  /\ t.matching_categories_ = a[j + 6].v
  /\ t.matching_categories_offset_ = a[j + 7].v

\* C11: every model a decode returns has as many trees as the header declares,
\* and its i-th tree was filled from the i-th tree record of the artifact.
C11_TreeCountAndOrder ==
  \A r \in Results :
    r.status = "ok" =>
      /\ Len(r.model.trees) = r.input[6].v
      /\ r.model.num_tree_ = r.input[6].v
      /\ \A i \in 1..Len(r.model.trees) :
           FilledFrom(r.model.trees[i], r.input, RecordStart(r.input, i))
Encodes == { encoded[i] : i \in 1..Len(encoded) }

\* the trees of a model whose declared node count differs from their node array
BadTrees(m) == { i \in 1..Len(m.trees) : m.trees[i].num_nodes # Len(m.trees[i].nodes_) }

\* number of trees in front of the first one of BadTrees
TreesBeforeBad(m) ==
  Cardinality({ i \in 1..Len(m.trees) : \A b \in BadTrees(m) : i < b })

\* C12 as stated: an encode or decode that aborts has exposed nothing, not
\* even units in the caller's output stream.
C12_NothingEmitted ==
  /\ \A r \in Results : r.status = "fatal" => r.model = NoModel
  /\ \A e \in Encodes : ~e.ok => e.out = << >>

\* C12 (amended): a decode that aborts returns no Model and a GetPyBuffer that
\* aborts returns no frames; a SerializeToStream that aborts has already
\* written the twelve header units and the ten units of every tree in front of
\* the failing one to the caller's stream, and nothing after them.
C12_NoPartialResult ==
  /\ \A r \in Results : r.status = "fatal" => r.model = NoModel
  /\ \A e \in Encodes :
       /\ e.ok <=> BadTrees(e.before) = {}
       /\ (~e.ok /\ e.via = "pybuffer") => e.out = << >>
       /\ (~e.ok /\ e.via = "stream") =>
            /\ Len(e.out) = 12 + 10 * TreesBeforeBad(e.before)
            /\ e.out = SerializeHeader(e.before, cur).out
                          \o SerializeTreeLoop(SubSeq(e.before.trees, 1,
                                                      TreesBeforeBad(e.before)), 1).out

\* SerializeToStream has failed on the second tree after writing the header
\* and the first tree, and GetPyBuffer has failed on the same model
C12_Witness ==
  /\ Len(encoded) = 2
  /\ encoded[1].via = "stream" /\ ~encoded[1].ok /\ Len(encoded[1].out) = 22
  /\ encoded[2].via = "pybuffer" /\ ~encoded[2].ok /\ encoded[2].out = << >>
HeaderKinds ==
  << "major_ver", "minor_ver", "patch_ver", "threshold_type", "leaf_output_type",
     "num_tree", "num_feature", "task_type", "average_tree_output", "task_param",
     "param", "num_opt_field_per_model" >>

\* the units an encode call wrote, also when it did not complete
Written(e) == IF e.via = "pybuffer" /\ ~e.ok
              THEN Serialize(e.before, cur).out ELSE e.out

\* C14: every encode writes the twelve header units first and in the fixed
\* order, the version triple being the current one and the optional-field
\* count zero, and every decode reads the three version integers first.
C14_HeaderOrder ==
  /\ \A e \in Encodes :
       LET w == Written(e)
       IN /\ Len(w) >= 12
          /\ \A i \in 1..12 : w[i].k = HeaderKinds[i]
          /\ \A i \in 13..Len(w) : \A j \in 1..12 : w[i].k # HeaderKinds[j]
          /\ Version(w[1].v, w[2].v, w[3].v) = cur
          /\ w[4].v = e.before.variant.threshold
          /\ w[5].v = e.before.variant.leaf
          /\ w[6].v = Len(e.before.trees)
          /\ w[7].v = e.before.num_feature
          /\ w[8].v = e.before.task_type
          /\ w[9].v = e.before.average_tree_output
          /\ w[10].v = e.before.task_param
          /\ w[11].v = e.before.param
          /\ w[12].v = 0
  /\ \A r \in Results :
       Decoded(r) =>
         /\ Len(r.events) >= 3
         /\ \A i \in 1..3 : r.events[i] = [op |-> "read", k |-> HeaderKinds[i]]

\* a model with stale bookkeeping and two trees has been encoded and the
\* frames decoded again
C14_Witness ==
  /\ Len(encoded) >= 1
  /\ encoded[1].via = "pybuffer" /\ encoded[1].ok
  /\ encoded[1].before.num_opt_field_per_model_ > 0
  /\ Len(encoded[1].out) = 32
  /\ Decoded(pyRes) /\ pyRes.input = encoded[1].out
TreeKinds ==
  << "num_nodes", "has_categorical_split", "nodes", "leaf_vector",
     "leaf_vector_begin", "leaf_vector_end", "matching_categories",
     "matching_categories_offset", "num_opt_field_per_tree",
     "num_opt_field_per_node" >>

ArrayKinds ==
  { "leaf_vector", "leaf_vector_begin", "leaf_vector_end",
    "matching_categories", "matching_categories_offset" }

\* the tree units an encode call wrote, the header units taken off
TreeUnits(e) == SubSeq(Written(e), 13, Len(Written(e)))

\* the kinds of the tree units a decode read, in the order it read them
TreeReads(r) ==
  LET ev == SelectSeq(r.events, LAMBDA x : /\ x.op = "read"
                                           /\ \E i \in 1..10 : x.k = TreeKinds[i])
  IN [i \in 1..Len(ev) |-> ev[i].k]

\* the units of the j-th record written are the fields of tree t, in order
RecordOf(t, u, j) ==
  /\ u[10 * (j - 1) + 1].v = t.num_nodes
  /\ u[10 * (j - 1) + 2].v = t.has_categorical_split_
  /\ u[10 * (j - 1) + 3].v = t.nodes_
  /\ u[10 * (j - 1) + 4].v = t.leaf_vector_
  /\ u[10 * (j - 1) + 5].v = t.leaf_vector_begin_
  /\ u[10 * (j - 1) + 6].v = t.leaf_vector_end_
  /\ u[10 * (j - 1) + 7].v = t.matching_categories_
  /\ u[10 * (j - 1) + 8].v = t.matching_categories_offset_
  /\ u[10 * (j - 1) + 9].v = 0
  /\ u[10 * (j - 1) + 10].v = 0

\* the legacy tree reader read what the encoder wrote, unit for unit
ReadsWhatWasWritten(r) ==
  (r.status = "ok" /\ r.body = "legacy" /\ \E e \in Encodes : e.out = r.input) =>
    /\ Len(TreeReads(r)) = Len(r.input) - 12
    /\ \A i \in 1..Len(TreeReads(r)) : TreeReads(r)[i] = TreeKinds[((i - 1) % 10) + 1]
    /\ \A i \in 1..Len(r.model.trees) :
         FilledFrom(r.model.trees[i], r.input, 12 + 10 * (i - 1) + 1)

\* C15 as stated: a tree record carries exactly four arrays between the node
\* array and the two optional-field counts, and the tree decoder reads the
\* same number of units in the same order.
C15_FourArrays ==
  /\ \A e \in Encodes :
       Cardinality({ i \in 1..Len(TreeUnits(e)) : TreeUnits(e)[i].k \in ArrayKinds })
         = 4 * Cardinality({ i \in 1..Len(TreeUnits(e)) : TreeUnits(e)[i].k = "num_nodes" })
  /\ \A r \in Results : ReadsWhatWasWritten(r)

\* C15 (amended): for each tree, in collection order, the encoder writes ten
\* units: node count, categorical-split flag, node array, the five arrays
\* leaf_vector, leaf_vector_begin, leaf_vector_end, matching_categories,
\* matching_categories_offset, and two optional-field counts of zero;
\* DeserializeTreeV3 reads those ten units in the same order.
C15_TreeRecordOrder ==
  /\ \A e \in Encodes :
       LET u == TreeUnits(e)
           n == IF e.ok THEN Len(e.before.trees) ELSE TreesBeforeBad(e.before)
       IN /\ Len(u) = 10 * n
          /\ \A i \in 1..Len(u) : u[i].k = TreeKinds[((i - 1) % 10) + 1]
          /\ \A j \in 1..n : RecordOf(e.before.trees[j], u, j)
  /\ \A r \in Results : ReadsWhatWasWritten(r)

\* a model of two trees, one with leaf vectors and categories, has been
\* written to a stream by a 3.9 library and read back by the legacy reader
C15_Witness ==
  /\ Len(encoded) >= 1
  /\ encoded[1].via = "stream" /\ encoded[1].ok
  /\ Len(encoded[1].before.trees) = 2
  /\ \E j \in 1..2 : encoded[1].before.trees[j].leaf_vector_ # << >>
  /\ stRes.status = "ok" /\ stRes.body = "legacy"
  /\ stRes.input = encoded[1].out
  /\ Len(TreeReads(stRes)) = 20
(***************************************************************************)
(* The Serializer class used directly: a caller holding a Model calls its  *)
(* three public methods in any order on one mix-in.                        *)
(***************************************************************************)
\* the library version is the legacy one or the newest considered
InitDirect ==
  /\ InitEncode
  /\ cur \in { Version(LegacyMajor, LegacyMinor, 0), Version(MaxMajor, MaxMinor, 0) }
  /\ Idle

\* void Serializer::SerializeHeader(Model& model)
CallSerializeHeader ==
  /\ Len(direct) < MaxCalls
  /\ LET h == SerializeHeader(model, cur)
     IN /\ model' = h.model
        /\ direct' = Append(direct, [ call |-> "SerializeHeader", ok |-> TRUE,
                                      before |-> model, out |-> h.out, tree |-> 0 ])
  /\ UNCHANGED <<cur, encoded, input, pyRes, stRes, task, ops, os, ast>>

\* void Serializer::SerializeTrees(Model& model)
CallSerializeTrees ==
  /\ Len(direct) < MaxCalls
  /\ LET t == SerializeTrees(model)
     IN /\ model' = t.model
        /\ direct' = Append(direct, [ call |-> "SerializeTrees", ok |-> t.ok,
                                      before |-> model, out |-> t.out, tree |-> 0 ])
  /\ UNCHANGED <<cur, encoded, input, pyRes, stRes, task, ops, os, ast>>

\* void Serializer::SerializeTree(Tree<ThresholdType, LeafOutputType>& tree),
\* called on the j-th tree of the model
CallSerializeTree ==
  /\ Len(direct) < MaxCalls
  /\ \E j \in 1..Len(model.trees) :
       LET r == SerializeTree(model.trees[j])
       IN /\ model' = [model EXCEPT !.trees[j] = r.tree]
          /\ direct' = Append(direct, [ call |-> "SerializeTree", ok |-> r.ok,
                                        before |-> model, out |-> r.out, tree |-> j ])
  /\ UNCHANGED <<cur, encoded, input, pyRes, stRes, task, ops, os, ast>>

NextDirect == CallSerializeHeader \/ CallSerializeTrees \/ CallSerializeTree

SpecDirect == InitDirect /\ [][NextDirect]_vars

\* the unit positions of w where a tree record starts
RecordStarts(w) == { i \in 1..Len(w) : w[i].k = "num_nodes" }

\* the artifact declares as many trees as it has records, and every record
\* as many nodes as its node array has
CountsAgree(w) ==
  /\ w[6].v = Cardinality(RecordStarts(w))
  /\ \A i \in RecordStarts(w) : w[i].v = Len(w[i + 2].v)

\* C17: SerializeTrees ends in a fatal error with no tree unit written when
\* the tree count differs from num_tree_, SerializeTree ends in a fatal error
\* with no unit of that tree written when num_nodes differs from the node
\* array's size (called by SerializeTrees or directly), and an artifact
\* completed by SerializeHeader followed by SerializeTrees declares the counts
\* it contains.
C17_EncodeCountValidation ==
  /\ \A i \in 1..Len(direct) :
       LET c == direct[i]
       IN c.call = "SerializeTrees" =>
            /\ Len(c.before.trees) # c.before.num_tree_ => ~c.ok /\ c.out = << >>
            /\ Len(c.before.trees) = c.before.num_tree_ =>
                 /\ c.ok <=> BadTrees(c.before) = {}
                 /\ Len(c.out) = 10 * TreesBeforeBad(c.before)
                 /\ \A j \in RecordStarts(c.out) : c.out[j].v = Len(c.out[j + 2].v)
  /\ \A i \in 1..Len(direct) :
       LET c == direct[i]
           t == c.before.trees[c.tree]
       IN c.call = "SerializeTree" =>
            /\ c.ok <=> t.num_nodes = Len(t.nodes_)
            /\ ~c.ok => c.out = << >>
            /\ c.ok => /\ Len(c.out) = 10
                       /\ c.out[1].v = Len(c.out[3].v)
  /\ (/\ Len(direct) >= 2
      /\ direct[1].call = "SerializeHeader"
      /\ direct[2].call = "SerializeTrees"
      /\ direct[2].ok)
     => CountsAgree(direct[1].out \o direct[2].out)

\* SerializeTrees was called first on a model whose num_tree_ is stale, then
\* SerializeTree on its second tree, which declares a node too many, and
\* SerializeTree on its first tree, which is sound
C17_Witness ==
  /\ Len(direct) = 3
  /\ direct[1].call = "SerializeTrees" /\ ~direct[1].ok
  /\ Len(direct[1].before.trees) = 2
  /\ Len(direct[1].before.trees) # direct[1].before.num_tree_
  /\ direct[2].call = "SerializeTree" /\ direct[2].tree = 2 /\ ~direct[2].ok
  /\ direct[3].call = "SerializeTree" /\ direct[3].tree = 1 /\ direct[3].ok
\* number of Model::Create calls a decode made
Creations(r) == Cardinality({ i \in 1..Len(r.events) : r.events[i] = CreateEvent })

\* C18: on every decode that is not rejected, on the current and on the legacy
\* path, the two type tags are read right after the version triple, the Model
\* is created next and only once, with the type pair the tags name, and the
\* version stored in it is the triple read from the artifact.
C18_TypePairThenCreate ==
  \A r \in Results :
    (Decoded(r) /\ r.header # "none") =>
      /\ Len(r.events) >= 6
      /\ r.events[4] = [op |-> "read", k |-> "threshold_type"]
      /\ r.events[5] = [op |-> "read", k |-> "leaf_output_type"]
      /\ r.events[6] = CreateEvent
      /\ r.created /\ Creations(r) = 1
      /\ r.status = "ok" =>
           /\ r.model.variant = [threshold |-> r.input[4].v, leaf |-> r.input[5].v]
           /\ Version(r.model.major_ver_, r.model.minor_ver_, r.model.patch_ver_)
                = StoredVersion(r)

\* a library of major 4 has decoded a 3.9 artifact on the legacy path, from
\* frames and from a stream, and returned a model
C18_Witness ==
  /\ Decoded(pyRes) /\ Decoded(stRes)
  /\ cur.major = 4
  /\ pyRes.header = "legacy" /\ stRes.header = "legacy"
  /\ pyRes.status = "ok" /\ stRes.status = "ok"
  /\ stRes.model.major_ver_ = 3 /\ stRes.model.minor_ver_ = 9
\* C19: a decode of a 3.9 artifact does not hand back a model; the missing
\* conversion of the legacy task type, parameters and nodes is reported as an
\* explicit outcome.
C19_LegacySurfaced ==
  \A r \in Results :
    (Decoded(r) /\ r.header = "legacy") => r.status # "ok"
\* the model as the i-th encode call left it
After(i) == IF i < Len(encoded) THEN encoded[i + 1].before ELSE model

\* the two trees agree on everything but the two optional-field counts
SameTreeContent(t, u) ==
  /\ t.num_nodes = u.num_nodes
  /\ t.has_categorical_split_ = u.has_categorical_split_
  /\ t.nodes_ = u.nodes_
  /\ t.leaf_vector_ = u.leaf_vector_
  /\ t.leaf_vector_begin_ = u.leaf_vector_begin_
  /\ t.leaf_vector_end_ = u.leaf_vector_end_
  /\ t.matching_categories_ = u.matching_categories_
  /\ t.matching_categories_offset_ = u.matching_categories_offset_

\* the two models agree on everything but the bookkeeping fields
SameContent(m, n) ==
  /\ m.variant = n.variant
  /\ m.num_feature = n.num_feature
  /\ m.task_type = n.task_type
  /\ m.average_tree_output = n.average_tree_output
  /\ m.task_param = n.task_param
  /\ m.param = n.param
  /\ Len(m.trees) = Len(n.trees)
  /\ \A j \in 1..Len(m.trees) : SameTreeContent(m.trees[j], n.trees[j])

\* C20: an encode leaves the feature count, task type, flag, parameters, the
\* tree collection and every tree's nodes and arrays as they were; it sets
\* the stored version to the current one, the stored type tags, num_tree_ to
\* the tree count and the optional-field counts to zero (those of the trees it
\* got to); a second encode changes nothing.
C20_EncodeFrame ==
  \A i \in 1..Len(encoded) :
    LET b == encoded[i].before
        a == After(i)
    IN /\ SameContent(a, b)
       /\ Version(a.major_ver_, a.minor_ver_, a.patch_ver_) = cur
       /\ a.threshold_type_ = b.variant.threshold
       /\ a.leaf_output_type_ = b.variant.leaf
       /\ a.num_tree_ = Len(b.trees)
       /\ a.num_opt_field_per_model_ = 0
       /\ \A j \in 1..Len(a.trees) :
            IF encoded[i].ok \/ j <= TreesBeforeBad(b)
            THEN /\ a.trees[j].num_opt_field_per_tree_ = 0
                 /\ a.trees[j].num_opt_field_per_node_ = 0
            ELSE a.trees[j] = b.trees[j]
       /\ i >= 2 => a = b

\* a model with stale bookkeeping and two trees, one with leaf vectors, has
\* been encoded twice; the first encode changed it
C20_Witness ==
  /\ Len(encoded) = 2
  /\ encoded[1].ok /\ encoded[2].ok
  /\ Len(encoded[1].before.trees) = 2
  /\ \E j \in 1..2 : encoded[1].before.trees[j].leaf_vector_ # << >>
  /\ encoded[1].before.num_tree_ # 2
  /\ encoded[1].before # encoded[2].before
  /\ encoded[2].before = model
TaskCodes == { TaskTypeToString(t) : t \in kBinaryClf..kIsolationForest }

\* C16: converting the text code of each of the five task types back gives
\* that task type, the five codes are pairwise distinct, and a string that is
\* not one of the five codes (the empty string TaskTypeToString gives for any
\* other value included) ends StringToTaskType in a fatal error with no task
\* type returned.
C16_TaskTypeCodes ==
  /\ (task.op = "StringToTaskType" /\ task.from # NoTaskType) =>
       IF task.from \in kBinaryClf..kIsolationForest
       THEN task.status = "ok" /\ task.value = task.from
       ELSE task.arg = "" /\ task.status = "fatal" /\ task.value = NoTaskType
  /\ task.op = "TaskTypeToString" =>
       \A u \in kBinaryClf..kIsolationForest :
         (task.arg \in kBinaryClf..kIsolationForest /\ u # task.arg)
           => TaskTypeToString(u) # task.value
  /\ task.op = "StringToTaskType" =>
       /\ task.arg \notin TaskCodes => task.status = "fatal" /\ task.value = NoTaskType
       /\ task.arg \in TaskCodes =>
            /\ task.status = "ok"
            /\ task.value \in kBinaryClf..kIsolationForest
            /\ TaskTypeToString(task.value) = task.arg
  /\ Cardinality(TaskCodes) = 5

\* the code of kLearningToRank has been converted back
C16_Witness ==
  /\ task.op = "StringToTaskType"
  /\ task.from = kLearningToRank
  /\ task.arg = "kLearningToRank"
  /\ task.status = "ok"
(***************************************************************************)
(* Two operations running concurrently, each on its own Model and bound to *)
(* its own stream.  A step of an encode is everything up to and including  *)
(* the next write of the mix-in; a decode steps once per Deserializer call. *)
(***************************************************************************)
\* a mix-in kept in a static and bound to the first caller's stream
StreamOfShared(p) == 1

\* the stream the mix-in of operation p works on: the one its caller passed,
\* the mix-in being made anew by every call
StreamOf(p) == p

\* the model after the assignments of SerializeHeader that precede its k-th write
HeaderAssigned(m, ver, k) ==
  LET h == SerializeHeader(m, ver).model
  IN [m EXCEPT !.major_ver_ = h.major_ver_,
               !.minor_ver_ = h.minor_ver_,
               !.patch_ver_ = h.patch_ver_,
               !.threshold_type_ = IF k >= 4 THEN h.threshold_type_ ELSE @,
               !.leaf_output_type_ = IF k >= 4 THEN h.leaf_output_type_ ELSE @,
               !.num_tree_ = IF k >= 6 THEN h.num_tree_ ELSE @,
               !.num_opt_field_per_model_ =
                  IF k >= 12 THEN h.num_opt_field_per_model_ ELSE @]

\* the tree after the assignments of SerializeTree that precede its i-th write
TreeAssigned(tree, i) ==
  [tree EXCEPT !.num_opt_field_per_tree_ = IF i >= 9 THEN 0 ELSE @,
               !.num_opt_field_per_node_ = IF i >= 10 THEN 0 ELSE @]

\* SerializeHeader and SerializeTrees run up to their next write, n units
\* having been written so far
SerializeStep(m, ver, n) ==
  IF n < 12
  THEN LET m1 == HeaderAssigned(m, ver, n + 1)
       IN [status |-> "running", model |-> m1,
           out |-> << SerializeHeader(m1, ver).out[n + 1] >>]
  ELSE IF n = 12 /\ Len(m.trees) # m.num_tree_
  THEN [status |-> "fatal", model |-> m, out |-> << >>]
  ELSE IF n = 12 + 10 * Len(m.trees)
  THEN [status |-> "ok", model |-> m, out |-> << >>]
  ELSE LET j == ((n - 12) \div 10) + 1
           i == ((n - 12) % 10) + 1
           t == TreeAssigned(m.trees[j], i)
           r == SerializeTree(t)
       IN IF ~r.ok
          THEN [status |-> "fatal", model |-> m, out |-> << >>]
          ELSE [status |-> "running", model |-> [m EXCEPT !.trees[j] = t],
                out |-> << r.out[i] >>]

\* what is left to read of a stream
Unread(s) == SubSeq(s.content, s.rpos + 1, Len(s.content))

ConcVersions == { Version(LegacyMajor, LegacyMinor, 0), Version(MaxMajor, MaxMinor, 0) }

ConcModels ==
  { FrontendModel(pair, ArtifactProfile, trees, TRUE) :
      pair \in TypePairs,
      trees \in { << MkTree(MaxNodes, MaxNodes, TRUE, MaxOpt) >>,
                  << MkTree(1, 1, FALSE, MaxOpt),
                     MkTree(MaxNodes, MaxNodes + 1, FALSE, MaxOpt) >> } }

\* what the streams hold at the start: a legacy artifact with optional fields
\* and an artifact of the current major version
ConcArtifacts(ver) ==
  { Artifact(Version(LegacyMajor, LegacyMinor, 0), CHOOSE pair \in TypePairs : TRUE,
             ArtifactProfile, MaxOpt,
             << TreeRecord(MkTree(MaxNodes, MaxNodes, TRUE, 0), MaxOpt, MaxOpt) >>),
    Artifact(Version(ver.major, LegacyMinor, 0), CHOOSE pair \in TypePairs : TRUE,
             ArtifactProfile, 0,
             << TreeRecord(MkTree(1, 1, FALSE, 0), 0, 0),
                TreeRecord(MkTree(MaxNodes, MaxNodes, TRUE, 0), 0, 0) >>) }

\* an operation about to start on model m (NoModel for a decode), its stream
\* holding a0
Op(kind, m, a0) ==
  [kind |-> kind, m |-> m, m0 |-> m, a0 |-> a0, n |-> 0, status |-> "running"]

ConcOps(ver) ==
  { Op("SerializeToStream", m, a0) : m \in ConcModels, a0 \in ConcArtifacts(ver) }
  \cup { Op("DeserializeFromStream", NoModel, a0) : a0 \in ConcArtifacts(ver) }

InitConc ==
  /\ cur \in ConcVersions
  /\ model = NoModel
  /\ encoded = << >>
  /\ input = << >>
  /\ pyRes = NoResult
  /\ stRes = NoResult
  /\ direct = << >>
  /\ task = NoConversion
  /\ ops \in [1..2 -> ConcOps(cur)]
  /\ os = [p \in 1..2 |-> [content |-> ops[p].a0, rpos |-> 0]]
  /\ ast = NoAST
\* void Model::SerializeToStream(std::ostream& os), up to its next write
SerializeToStreamStep ==
  /\ \E p \in 1..2 :
       /\ ops[p].kind = "SerializeToStream"
       /\ ops[p].status = "running"
       /\ LET s == SerializeStep(ops[p].m, cur, ops[p].n)
          IN /\ ops' = [ops EXCEPT ![p].m = s.model,
                                   ![p].n = @ + Len(s.out),
                                   ![p].status = s.status]
             /\ os' = [os EXCEPT ![StreamOf(p)].content = @ \o s.out]
  /\ UNCHANGED <<cur, model, encoded, input, pyRes, stRes, direct, task, ast>>

\* Model::DeserializeFromStream(std::istream& is), its call of
\* DeserializeHeaderAndCreateModel
DeserializeHeaderStep ==
  /\ \E p \in 1..2 :
       /\ ops[p].kind = "DeserializeFromStream"
       /\ ops[p].status = "running"
       /\ ops[p].n = 0
       /\ LET h == DeserializeHeaderAndCreateModel(Unread(os[StreamOf(p)]), cur)
          IN /\ ops' = [ops EXCEPT ![p].m = h.model,
                                   ![p].n = 1,
                                   ![p].status = IF h.status = "ok" THEN "running"
                                                                    ELSE "fatal"]
             /\ os' = [os EXCEPT ![StreamOf(p)].rpos = @ + h.pos]
  /\ UNCHANGED <<cur, model, encoded, input, pyRes, stRes, direct, task, ast>>

\* Model::DeserializeFromStream(std::istream& is), its call of
\* DeserializeTreesV3 or DeserializeTrees and its return
DeserializeTreesStep ==
  /\ \E p \in 1..2 :
       /\ ops[p].kind = "DeserializeFromStream"
       /\ ops[p].status = "running"
       /\ ops[p].n = 1
       /\ LET s == os[StreamOf(p)]
              t == IF ops[p].m.major_ver_ = 3
                   THEN DeserializeTreesV3(s.content, s.rpos, ops[p].m)
                   ELSE DeserializeTrees(s.content, s.rpos, ops[p].m)
          IN /\ ops' = [ops EXCEPT ![p].m = IF t.ok THEN t.model ELSE NoModel,
                                   ![p].n = 2,
                                   ![p].status = IF t.ok THEN "ok" ELSE "fatal"]
             /\ os' = [os EXCEPT ![StreamOf(p)].rpos = t.pos]
  /\ UNCHANGED <<cur, model, encoded, input, pyRes, stRes, direct, task, ast>>

NextConc == SerializeToStreamStep \/ DeserializeHeaderStep \/ DeserializeTreesStep

SpecConc == InitConc /\ [][NextConc]_vars

\* operation p has returned or thrown
Finished(p) == ops[p].status # "running"

\* C13: under every interleaving of the steps of two operations on distinct
\* models and distinct streams, each operation writes the units, leaves the
\* model and ends the way it does when it runs alone.
C13_NoInterference ==
  \A p \in 1..2 :
    IF ops[p].kind = "SerializeToStream"
    THEN LET alone == Serialize(ops[p].m0, cur)
         IN /\ os[p].content = ops[p].a0 \o SubSeq(alone.out, 1, ops[p].n)
            /\ os[p].rpos = 0
            /\ Finished(p) =>
                 /\ ops[p].n = Len(alone.out)
                 /\ ops[p].m = alone.model
                 /\ (ops[p].status = "ok") <=> alone.ok
    ELSE LET alone == ModelDeserializeFromStream(ops[p].a0, cur)
         IN /\ os[p].content = ops[p].a0
            /\ ops[p].n = 0 => os[p].rpos = 0
            /\ Finished(p) =>
                 /\ ops[p].status = alone.status
                 /\ ops[p].m = alone.model
                 /\ os[p].rpos = alone.pos

\* an encode of a one-tree model and a decode of a legacy artifact have both
\* run to their end, each on its own stream
C13_Witness ==
  /\ ops # << >>
  /\ ops[1].kind = "SerializeToStream" /\ ops[1].status = "ok" /\ ops[1].n = 22
  /\ ops[2].kind = "DeserializeFromStream" /\ ops[2].status = "ok"
  /\ ops[2].m.major_ver_ = 3 /\ Len(ops[2].m.trees) = 1
  /\ ops[1].m # ops[1].m0
\* the kinds of the units a decode read, in the order it read them
UnitReads(r) ==
  LET ev == SelectSeq(r.events, LAMBDA x : x.op = "read")
  IN [i \in 1..Len(ev) |-> ev[i].k]

\* the kinds of the units of an artifact, in the order they were written
UnitWrites(a) == [i \in 1..Len(a) |-> a[i].k]

\* C21: when an artifact written by SerializeHeader and SerializeTrees is
\* decoded by the same library version, the decoder reads the units the
\* encoder wrote, one for one in kind and order, and a successful decode
\* leaves no unit unread, on both transports.
C21_ReaderConsumesAll ==
  \A r \in Results :
    (Decoded(r) /\ \E e \in Encodes : e.ok /\ e.out = r.input) =>
      /\ \A i \in 1..Len(UnitReads(r)) :
           i <= Len(r.input) /\ UnitReads(r)[i] = UnitWrites(r.input)[i]
      /\ r.status = "ok" =>
           /\ UnitReads(r) = UnitWrites(r.input)
           /\ r.pos = Len(r.input)
(***************************************************************************)
(* An ASTBuilder holding an AST, on which CountDescendant is called        *)
(***************************************************************************)
InitAST ==
  /\ cur = Version(MaxMajor, MaxMinor, 0)
  /\ model = NoModel
  /\ encoded = << >>
  /\ input = << >>
  /\ pyRes = NoResult
  /\ stRes = NoResult
  /\ direct = << >>
  /\ task = NoConversion
  /\ ops = << >>
  /\ os = << >>
  /\ ast \in ASTs

CountDescendant ==
  /\ ast.runs = 0
  /\ ast' = ASTBuilderCountDescendant(ast)
  /\ UNCHANGED <<cur, model, encoded, input, pyRes, stRes, direct, task, ops, os>>

NextAST == CountDescendant

SpecAST == InitAST /\ [][NextAST]_vars

\* node a is a proper ancestor of node j
RECURSIVE IsAncestor(_, _, _)
IsAncestor(t, a, j) ==
  IF j <= 1 THEN FALSE
  ELSE t.parent[j] = a \/ IsAncestor(t, a, t.parent[j])

\* node j lies strictly below a CodeFolderNode that is node i or below node i
BelowFolder(t, i, j) ==
  \E k \in 1..t.n :
    /\ t.folder[k]
    /\ IsAncestor(t, k, j)
    /\ (k = i \/ IsAncestor(t, i, k))

\* the proper descendants of node i not strictly below a CodeFolderNode
Counted(t, i) ==
  { j \in 1..t.n : IsAncestor(t, i, j) /\ ~BelowFolder(t, i, j) }

RECURSIVE SumOverChildren(_, _)
SumOverChildren(t, kids) ==
  IF kids = << >> THEN 0
  ELSE t.num[Head(kids)] + 1 + SumOverChildren(t, Tail(kids))

\* C22: after CountDescendant, a visited node that is no CodeFolderNode holds
\* the sum over its children of (their count + 1), which is the number of its
\* proper descendants not strictly below a CodeFolderNode; a CodeFolderNode
\* reached holds 0; the nodes visited are those with no CodeFolderNode above
\* them, and every other node keeps the value it had.
C22_DescendantCount ==
  ast.runs > 0 =>
    \A i \in 1..ast.n :
      /\ i \in ast.visited <=> ~(\E k \in 1..ast.n : ast.folder[k] /\ IsAncestor(ast, k, i))
      /\ (i \in ast.visited /\ ast.folder[i]) => ast.num[i] = 0
      /\ (i \in ast.visited /\ ~ast.folder[i]) =>
           /\ ast.num[i] = SumOverChildren(ast, Children(ast, i))
           /\ ast.num[i] = Cardinality(Counted(ast, i))
      /\ i \notin ast.visited => ast.num[i] = ast.n + i

\* CountDescendant has run on a chain main_node - node - CodeFolderNode -
\* node: the folder was counted by its parent, the node below it was not
C22_Witness ==
  /\ ast.runs = 1 /\ ast.n = 4
  /\ ast.parent = << 0, 1, 2, 3 >>
  /\ ast.folder = << FALSE, FALSE, TRUE, FALSE >>
  /\ ast.num = << 2, 1, 0, 8 >>
  /\ ast.visited = {1, 2, 3}
====
